---- MODULE Spec2Model ----
(***************************************************************************)
(* Route densification of JWicher/wayzza:                                  *)
(*   src/generate_wronki_gniezno_route.py  (interpolate + spacing filter)  *)
(*   src/generate_coordinates.py           (the same, then gap-filling     *)
(*                                          passes up to a target count    *)
(*                                          and truncation)                *)
(*                                                                         *)
(* Numbers.  Python floats are binary floating-point numbers: every        *)
(* arithmetic operation returns the exact result rounded to the nearest    *)
(* representable value, ties to even.  The model keeps that rule and       *)
(* scales the format down: a value is an integer count of quanta           *)
(* (1 quantum = 2^-FracBits), and a representable value has at most        *)
(* Precision significant bits.  Every +, -, * and / of the source is one   *)
(* rounding (RoundQ) of the exact result.                                  *)
(*                                                                         *)
(* Distances.  The routes of the model lie on one great circle, a meridian *)
(* (equal longitudes) or the equator (latitudes 0).  There the haversine   *)
(* term a is sin^2(d/2) for the angle d between the points, so             *)
(* 2*asin(sqrt(a)) is |d| and the distance is R*|d|.  The coordinate unit  *)
(* of the model is the arc of one metre (R * radians(1 unit) = 1 m), which *)
(* makes the distance the absolute coordinate difference.                  *)
(***************************************************************************)
EXTENDS Integers, Sequences, FiniteSets, TLC

\* ------------------------------------------------------------- bounds
\* Significant bits of a representable number (53 in a Python float).
Precision == 6
\* Longest waypoint list.
MaxWaypoints == 3
\* Largest target count of the gap-filling mode (1000 in the source).
MaxTarget == 4

\* Fractional bits: the quantum is 2^-FracBits.
FracBits == Precision + 2
Pow2(n) == 2 ^ n
\* The number 1.0, in quanta.
Unit == Pow2(FracBits)

\* --------------------------------------------------- float arithmetic
Abs(x) == IF x < 0 THEN -x ELSE x

\* Quotient a/d (a >= 0, d > 0) rounded to the nearest integer, ties to even.
RoundHalfEven(a, d) ==
    LET f == a \div d
        r == a % d
    IN  IF 2 * r < d THEN f
        ELSE IF 2 * r > d THEN f + 1
        ELSE IF f % 2 = 0 THEN f ELSE f + 1

\* The spacing of the representable numbers around a/d: the least power of
\* two q (in quanta, q >= 1) with a/d < 2^Precision * q.
RECURSIVE Quantum(_, _, _)
Quantum(a, d, q) ==
    IF a < Pow2(Precision) * q * d THEN q ELSE Quantum(a, d, 2 * q)

\* The rational num/den (den > 0, in quanta) rounded to a representable number.
RoundQ(num, den) ==
    LET a == Abs(num)
        q == Quantum(a, den, 1)
        m == RoundHalfEven(a, den * q) * q
    IN  IF num < 0 THEN -m ELSE m

FAdd(x, y) == RoundQ(x + y, 1)
FSub(x, y) == RoundQ(x - y, 1)
\* x and y in quanta: the product x*y/Unit, in quanta.
FMul(x, y) == RoundQ(x * y, Unit)
\* x and y in quanta: the quotient x/y as a number, in quanta.
FDiv(x, y) == RoundQ(x * Unit, y)
\* int(x) for x >= 0: truncation.
Trunc(x) == x \div Unit

\* ------------------------------------------------------------ distance
\* haversine_distance on the great circles of the model (see the header).
haversine_distance(coord1, coord2) ==
    CASE coord1[2] = coord2[2] -> Abs(FSub(coord2[1], coord1[1]))
      [] coord1[1] = 0 /\ coord2[1] = 0 -> Abs(FSub(coord2[2], coord1[2]))

\* ------------------------------------------------------- interpolation
Max(a, b) == IF a >= b THEN a ELSE b
Min(a, b) == IF a <= b THEN a ELSE b
Last(s) == s[Len(s)]
Front(s) == SubSeq(s, 1, Len(s) - 1)

\* ratio = i / num_points: the quotient of two integers, rounded once.
Ratio(i, num_points) == RoundQ(i * Unit, num_points)

\* start[c] + (end[c] - start[c]) * ratio
Lerp(a, b, ratio) == FAdd(a, FMul(FSub(b, a), ratio))

\* interpolate_points: the points for i in range(num_points + 1).
interpolate_points(start, end, num_points) ==
    [j \in 1..(num_points + 1) |->
        LET ratio == Ratio(j - 1, num_points)
        IN  <<Lerp(start[1], end[1], ratio), Lerp(start[2], end[2], ratio)>>]

\* num_intermediate = max(1, int(distance / minSpacing))
num_intermediate(start, end, S) ==
    Max(1, Trunc(FDiv(haversine_distance(start, end), S)))

\* The points of segment i (0-based) that are added to all_points: all but
\* the last, except for the final segment.
SegmentToAppend(segment_points, i, nWaypoints) ==
    IF i < nWaypoints - 2 THEN Front(segment_points) ELSE segment_points

\* Mutant of KeepCandidate: the filter drops only coincident points.
KeepCandidate_NonZero(lastKept, point, S) == haversine_distance(lastKept, point) > 0

\* The test of the spacing filter on one candidate.
KeepCandidate(lastKept, point, S) == haversine_distance(lastKept, point) >= S

\* Mutant of FilterKeep: the candidate is compared with the candidate before
\* it instead of the last kept point.
FilterKeep_PrevCandidate(kept, candidates, k, S) ==
    KeepCandidate(candidates[k - 1], candidates[k], S)

\* The filter's decision on candidate all_points[k], given the points kept so
\* far: the candidate is compared with filtered_points[-1].
FilterKeep(kept, candidates, k, S) == KeepCandidate(Last(kept), candidates[k], S)

\* ------------------------------------------------------- gap filling
Midpoint(p, q) ==
    <<FDiv(FAdd(p[1], q[1]), 2 * Unit), FDiv(FAdd(p[2], q[2]), 2 * Unit)>>

\* Mutant of GapExceeds: a gap equal to the threshold is filled too.
GapExceeds_Inclusive(p, q, G) == haversine_distance(p, q) >= G

GapExceeds(p, q, G) == haversine_distance(p, q) > G

\* One pass: for i in range(len - 1): the point, then the midpoint if the
\* gap to the next point exceeds G; then the last point.
RECURSIVE PassFrom(_, _, _)
PassFrom(track, i, G) ==
    IF i >= Len(track) THEN <<track[Len(track)]>>
    ELSE (IF GapExceeds(track[i], track[i + 1], G)
          THEN <<track[i], Midpoint(track[i], track[i + 1])>>
          ELSE <<track[i]>>) \o PassFrom(track, i + 1, G)

\* Mutant of GapFillPass: the final new_points.append(filtered_points[-1]) is
\* forgotten.
GapFillPass_NoLast(track, G) == Front(PassFrom(track, 1, G))

GapFillPass(track, G) == PassFrom(track, 1, G)

\* The same walk over the marks "inserted by a pass" of the points.
RECURSIVE FlagsFrom(_, _, _, _)
FlagsFrom(track, flags, i, G) ==
    IF i >= Len(track) THEN <<flags[Len(track)]>>
    ELSE (IF GapExceeds(track[i], track[i + 1], G)
          THEN <<flags[i], TRUE>>
          ELSE <<flags[i]>>) \o FlagsFrom(track, flags, i + 1, G)

GapFillFlags(track, flags, G) == FlagsFrom(track, flags, 1, G)

\* Mutant of Truncate: the last n points are kept, filtered_points[-n:].
Truncate_Tail(track, n) ==
    SubSeq(track, Len(track) - Min(n, Len(track)) + 1, Len(track))

\* filtered_points[:targetCount]
Truncate(track, n) == SubSeq(track, 1, Min(n, Len(track)))

\* -------------------------------------------------------------- inputs
\* The waypoint list, the minimum spacing (10, 50), the target count (1000)
\* and the gap threshold (80) are literals of the two scripts; they are the
\* parameters of densify and densifyToTargetCount, and are drawn here from
\* small sets: lists of zero to MaxWaypoints waypoints, routes that go back
\* and forth, repeated waypoints, segments shorter than, equal to and longer
\* than the spacing and the threshold.
\* Coordinates of waypoints along the route's great circle, in sixteenths of
\* the unit: -1.0625, 0, 0.5, 1.5 and 3.5.
Positions == {RoundQ(h * Unit, 16) : h \in {-17, 0, 8, 24, 56}}
\* The longitude of the meridian routes.
MeridianLon == 3 * Unit

OnMeridian(x) == <<x, MeridianLon>>
OnEquator(x) == <<0, x>>

RECURSIVE SeqsUpTo(_, _)
SeqsUpTo(S, n) ==
    IF n = 0 THEN {<<>>}
    ELSE SeqsUpTo(S, n - 1) \cup
         {Append(s, x) : s \in {t \in SeqsUpTo(S, n - 1) : Len(t) = n - 1}, x \in S}

WaypointLists ==
    {[j \in 1..Len(s) |-> OnMeridian(s[j])] : s \in SeqsUpTo(Positions, MaxWaypoints)}
    \cup {[j \in 1..Len(s) |-> OnEquator(s[j])] : s \in SeqsUpTo(Positions, MaxWaypoints)}

Spacings == {Unit, 2 * Unit}
GapThresholds == {(3 * Unit) \div 2, 3 * Unit}

\* --------------------------------------------------------------- state
VARIABLES
    script,           \* which generate_route_coordinates runs
    waypoints,        \* the waypoint list
    minSpacing,       \* 10 / 50 in the source
    targetCount,      \* 1000 in generate_coordinates.py
    gapThreshold,     \* 80 in generate_coordinates.py
    pc,               \* position in generate_route_coordinates
    i,                \* index of the segment loop
    k,                \* index into all_points of the filter loop (1-based)
    segment_points,   \* the points of the segment interpolated last
    all_points,
    filtered_points,
    new_points,
    inserted,         \* history: inserted[j] iff filtered_points[j] is a midpoint
    result            \* the returned track

vars == <<script, waypoints, minSpacing, targetCount, gapThreshold, pc, i, k,
          segment_points, all_points, filtered_points, new_points, inserted, result>>

inputs == <<script, waypoints, minSpacing, targetCount, gapThreshold>>

Init ==
    /\ script \in {"wronki_gniezno", "berlin_munich"}
    /\ waypoints \in WaypointLists
    /\ minSpacing \in Spacings
    /\ IF script = "berlin_munich"
       THEN targetCount \in 1..MaxTarget /\ gapThreshold \in GapThresholds
       ELSE targetCount = 0 /\ gapThreshold = 0
    /\ pc = "segments"
    /\ i = 0
    /\ k = 0
    /\ segment_points = <<>>
    /\ all_points = <<>>
    /\ filtered_points = <<>>
    /\ new_points = <<>>
    /\ inserted = <<>>
    /\ result = <<>>

\* One iteration of: for i in range(len(waypoints) - 1)
Segment ==
    /\ pc = "segments"
    /\ i < Len(waypoints) - 1
    /\ LET start == waypoints[i + 1]
           end == waypoints[i + 2]
           segment == interpolate_points(start, end,
                                         num_intermediate(start, end, minSpacing))
       IN  /\ segment_points' = segment
           /\ all_points' = all_points \o SegmentToAppend(segment, i, Len(waypoints))
    /\ i' = i + 1
    /\ UNCHANGED <<inputs, pc, k, filtered_points, new_points, inserted, result>>

\* filtered_points = [all_points[0]] on an empty all_points: IndexError.
RaiseIndexError ==
    /\ pc = "segments"
    /\ i >= Len(waypoints) - 1
    /\ all_points = <<>>
    /\ pc' = "raised"
    /\ UNCHANGED <<inputs, i, k, segment_points, all_points, filtered_points, new_points, inserted, result>>

\* filtered_points = [all_points[0]]
StartFilter ==
    /\ pc = "segments"
    /\ i >= Len(waypoints) - 1
    /\ all_points # <<>>
    /\ filtered_points' = <<all_points[1]>>
    /\ inserted' = <<FALSE>>
    /\ k' = 2
    /\ pc' = "filter"
    /\ UNCHANGED <<inputs, i, segment_points, all_points, new_points, result>>

\* One iteration of: for point in all_points[1:]
FilterStep ==
    /\ pc = "filter"
    /\ k <= Len(all_points)
    /\ IF FilterKeep(filtered_points, all_points, k, minSpacing)
       THEN /\ filtered_points' = Append(filtered_points, all_points[k])
            /\ inserted' = Append(inserted, FALSE)
       ELSE UNCHANGED <<filtered_points, inserted>>
    /\ k' = k + 1
    /\ UNCHANGED <<inputs, pc, i, segment_points, all_points, new_points, result>>

\* The filter loop is over: return (wronki_gniezno) or go on to the while loop.
FilterDone ==
    /\ pc = "filter"
    /\ k > Len(all_points)
    /\ IF script = "wronki_gniezno"
       THEN pc' = "done" /\ result' = filtered_points
       ELSE pc' = "while" /\ UNCHANGED result
    /\ UNCHANGED <<inputs, i, k, segment_points, all_points, filtered_points, new_points, inserted>>

\* while len(filtered_points) < targetCount
WhileTest ==
    /\ pc = "while"
    /\ pc' = IF Len(filtered_points) < targetCount THEN "pass" ELSE "return"
    /\ UNCHANGED <<inputs, i, k, segment_points, all_points, filtered_points, new_points, inserted, result>>

\* The body of the while loop up to new_points.append(filtered_points[-1]).
BuildNewPoints ==
    /\ pc = "pass"
    /\ new_points' = GapFillPass(filtered_points, gapThreshold)
    /\ pc' = "assign"
    /\ UNCHANGED <<inputs, i, k, segment_points, all_points, filtered_points, inserted, result>>

\* filtered_points = new_points; if len(filtered_points) >= targetCount: break
Assign ==
    /\ pc = "assign"
    /\ filtered_points' = new_points
    /\ inserted' = GapFillFlags(filtered_points, inserted, gapThreshold)
    /\ pc' = IF Len(new_points) >= targetCount THEN "return" ELSE "while"
    /\ UNCHANGED <<inputs, i, k, segment_points, all_points, new_points, result>>

\* return filtered_points[:targetCount]
Return ==
    /\ pc = "return"
    /\ result' = Truncate(filtered_points, targetCount)
    /\ pc' = "done"
    /\ UNCHANGED <<inputs, i, k, segment_points, all_points, filtered_points, new_points, inserted>>

Next ==
    \/ Segment
    \/ RaiseIndexError
    \/ StartFilter
    \/ FilterStep
    \/ FilterDone
    \/ WhileTest
    \/ BuildNewPoints
    \/ Assign
    \/ Return

Spec == Init /\ [][Next]_vars

\* The interpreter always takes the next step of the while loop and of the
\* return that follows it.
FairSpec ==
    /\ Spec
    /\ WF_vars(WhileTest)
    /\ WF_vars(BuildNewPoints)
    /\ WF_vars(Assign)
    /\ WF_vars(Return)

\* -------------------------------------------------------------- claims
Pairs(track) == 1..(Len(track) - 1)
Dist(track, j) == haversine_distance(track[j], track[j + 1])
Berlin == script = "berlin_munich"

\* The segment loop is over, on at least two waypoints.
SegmentsDone == pc = "segments" /\ i >= Len(waypoints) - 1 /\ Len(waypoints) >= 2
\* The filter loop is over: filtered_points is the track of densify.
DensifyDone == pc = "filter" /\ k > Len(all_points)

\* C1. Endpoint fidelity: the track of densify on at least two waypoints starts
\* with the first waypoint and ends with the final waypoint, which is kept even
\* when it is closer than minSpacing to the point kept before it.
C1_EndpointFidelity ==
    (DensifyDone /\ Len(waypoints) >= 2) =>
        /\ filtered_points[1] = waypoints[1]
        /\ Last(filtered_points) = Last(waypoints)

\* C2. Spacing invariant: in the track of densify every adjacent pair other
\* than the last pair is at least minSpacing apart, and a discarded candidate
\* leaves the kept points unchanged (the next candidate meets the same last
\* kept point).
C2_SpacingInvariant ==
    /\ pc = "filter" =>
          \A j \in Pairs(filtered_points) :
              j < Len(filtered_points) - 1 => Dist(filtered_points, j) >= minSpacing
    /\ (pc = "done" /\ ~Berlin) =>
          \A j \in Pairs(result) :
              j < Len(result) - 1 => Dist(result, j) >= minSpacing

C2_Witness ==
    /\ DensifyDone
    /\ Len(filtered_points) >= 4
    /\ Len(filtered_points) < Len(all_points)

\* C3. Termination: the gap-filling passes stop, once the while loop is
\* entered the function returns, also when every gap is within gapThreshold
\* and the track is shorter than targetCount.
C3_PassesTerminate == (pc = "while") ~> (pc = "done")

\* C4. Degenerate input: on a list of one waypoint densify returns that one
\* coordinate, on an empty list the empty track, and it raises no error.
C4_DegenerateInput ==
    Len(waypoints) <= 1 =>
        /\ pc # "raised"
        /\ DensifyDone => filtered_points = waypoints

Exceeding(track, G) == {j \in Pairs(track) : Dist(track, j) > G}

\* C7. Monotonic point count: a pass never shrinks the track; the new track
\* has as many points as the current one plus one per adjacent pair whose
\* distance exceeds gapThreshold.
C7_MonotonicCount ==
    pc = "assign" =>
        /\ Len(new_points) >= Len(filtered_points)
        /\ Len(new_points) =
               Len(filtered_points)
               + Cardinality(Exceeding(filtered_points, gapThreshold))

C7_Witness ==
    /\ pc = "assign"
    /\ Cardinality(Exceeding(filtered_points, gapThreshold)) >= 2
    /\ Len(new_points) = Len(filtered_points) + 2

\* Number of steps of segment s (1-based, from waypoints[s] to waypoints[s+1]).
StepCount(s) == num_intermediate(waypoints[s], waypoints[s + 1], minSpacing)
\* Number of points of all_points before segment s.
RECURSIVE Offset(_)
Offset(s) == IF s <= 1 THEN 0 ELSE Offset(s - 1) + StepCount(s - 1)

\* C8. Junctions: before the filter all_points holds, segment after segment,
\* the segment's points without its last (with it, for the final segment);
\* every interior waypoint stands once, at its junction; all_points starts
\* with the first waypoint, ends with the final one and has the sum of the
\* step counts plus one points.
C8_Junctions ==
    SegmentsDone =>
        LET nSeg == Len(waypoints) - 1
        IN  /\ Len(all_points) = Offset(nSeg + 1) + 1
            /\ \A s \in 1..nSeg :
                   LET pts == interpolate_points(waypoints[s], waypoints[s + 1],
                                                 StepCount(s))
                   IN  \A j \in 1..(StepCount(s) + (IF s = nSeg THEN 1 ELSE 0)) :
                           all_points[Offset(s) + j] = pts[j]
            /\ \A m \in 2..nSeg : all_points[Offset(m) + 1] = waypoints[m]
            /\ all_points[1] = waypoints[1]
            /\ Last(all_points) = Last(waypoints)

\* C9. interpolateSegment: with stepCount = max(1, floor(distance/minSpacing))
\* the segment has stepCount + 1 points, point i is
\* start + (end - start) * i/stepCount, the first point is start and the last
\* is end; a segment shorter than minSpacing is [start, end].
C9_InterpolateSegment ==
    (pc = "segments" /\ i >= 1) =>
        LET start == waypoints[i]
            end == waypoints[i + 1]
            distance == haversine_distance(start, end)
            stepCount == Max(1, Trunc(FDiv(distance, minSpacing)))
        IN  /\ Len(segment_points) = stepCount + 1
            /\ \A j \in 0..stepCount : \A c \in 1..2 :
                   segment_points[j + 1][c] =
                       FAdd(start[c], FMul(FSub(end[c], start[c]),
                                           RoundQ(j * Unit, stepCount)))
            /\ segment_points[1] = start
            /\ Last(segment_points) = end
            /\ distance < minSpacing => segment_points = <<start, end>>

\* The place in the new track of point j of the current track.
NewIndex(track, G, j) == j + Cardinality({m \in Exceeding(track, G) : m < j})

\* C10. One pass: the new track holds every point of the current track in
\* order, with the same first and last point, and exactly one arithmetic
\* midpoint between the points of each pair farther apart than gapThreshold,
\* nothing between the others; with no such pair it is the current track.
C10_PassStructure ==
    pc = "assign" =>
        LET old == filtered_points
            G == gapThreshold
        IN  /\ Len(new_points) = Len(old) + Cardinality(Exceeding(old, G))
            /\ \A j \in 1..Len(old) : new_points[NewIndex(old, G, j)] = old[j]
            /\ \A j \in Exceeding(old, G) :
                   new_points[NewIndex(old, G, j) + 1] = Midpoint(old[j], old[j + 1])
            /\ new_points[1] = old[1]
            /\ Last(new_points) = Last(old)
            /\ Exceeding(old, G) = {} => new_points = old

C10_Witness ==
    /\ pc = "assign"
    /\ Len(filtered_points) >= 3
    /\ Exceeding(filtered_points, gapThreshold) # {}
    /\ Exceeding(filtered_points, gapThreshold) # Pairs(filtered_points)
    /\ new_points # filtered_points

====
